---- MODULE Spec2Model ----
(***************************************************************************)
(* Model of the request pipeline of TwitchClient                           *)
(* (packages/twitch/src/TwitchClient.ts): the instance callAPI with its    *)
(* token acquisition, expiry refresh, dispatch, 401 refresh-and-retry and  *)
(* response decoding, the static callAPI / _callAPIRaw request builder,    *)
(* and the Helix rate limiter the instance sends Helix requests through.   *)
(* One action is the code that runs between two awaits of a call.          *)
(***************************************************************************)
EXTENDS Integers, Sequences, FiniteSets, TLC

\* ---------------------------------------------------------------- bounds
NumCalls == 2
MaxCapacity == 1

Calls == 1..NumCalls

\* ------------------------------------------------------- values and types
Undefined == "undefined"

Kraken == "Kraken"
Helix == "Helix"
Auth == "Auth"
Custom == "Custom"

\* TwitchAPICallType, and the values of the optional member options.type
TwitchAPICallType == {Kraken, Helix, Auth, Custom}

\* options.version, an optional number: no number, or the number
NoNumber == <<>>
VersionOpts == {NoNumber, <<0>>, <<5>>, <<7>>}

\* options.body, an optional object of form fields, and options.jsonBody, an
\* optional value of any type; the values are named by their source text
FormBodyOpts == {Undefined, "{}", "{game: 'a b'}"}
JsonBodyOpts == {Undefined, "{game: 'a b'}", "false"}

\* TwitchAPICallOptions: the members the pipeline and the request builder read
ScopeOpts == {Undefined, "user_read"}
TwitchAPICallOptions ==
    [type : TwitchAPICallType \cup {Undefined}, scope : ScopeOpts,
     version : VersionOpts, body : FormBodyOpts, jsonBody : JsonBodyOpts]

NoOptions ==
    [type |-> Undefined, scope |-> Undefined, version |-> NoNumber,
     body |-> Undefined, jsonBody |-> Undefined]

\* the options that leave the body and the version to their defaults
PlainOptions ==
    {o \in TwitchAPICallOptions :
        o.version = NoNumber /\ o.body = Undefined /\ o.jsonBody = Undefined}

\* JavaScript truthiness of an optional string
Truthy(s) == s # Undefined /\ s # ""

\* JavaScript truthiness of an optional number
TruthyNumber(n) == n # NoNumber /\ n[1] # 0

\* JavaScript truthiness of an optional value: an object is truthy, also the
\* empty one
TruthyValue(v) == v \notin {Undefined, "false"}

\* ------------------------------------------------------ the auth provider
ProviderClientId == "client-id"

TokenStrings == {"tokA", "tokB"}

\* AccessToken objects: the token string and the isExpired getter
AccessTokens == [accessToken : TokenStrings, isExpired : BOOLEAN]

NullToken == [accessToken |-> Undefined, isExpired |-> FALSE]

Resolved(token) == [ok |-> TRUE, token |-> token]
Rejected == [ok |-> FALSE, token |-> NullToken]

\* what awaiting authProvider.getAccessToken(...) can produce:
\* a token (expired or not), no token, or a rejection
GetAccessTokenResults ==
    {Resolved([accessToken |-> "tokA", isExpired |-> FALSE]),
     Resolved([accessToken |-> "tokA", isExpired |-> TRUE]),
     Resolved(NullToken),
     Rejected}

\* what awaiting authProvider.refresh() can produce: a token or a rejection
RefreshResults ==
    {Resolved([accessToken |-> "tokA", isExpired |-> FALSE]),
     Resolved([accessToken |-> "tokB", isExpired |-> FALSE]),
     Rejected}

\* the argument of getAccessToken: undefined, or an array of scopes
ScopeArgUndefined == [defined |-> FALSE, scopes |-> <<>>]
ScopeArgArray(s) == [defined |-> TRUE, scopes |-> s]

\* line 464: options.scope ? [options.scope] : undefined
InitialScopeArg(options) ==
    IF Truthy(options.scope) THEN ScopeArgArray(<<options.scope>>) ELSE ScopeArgUndefined

\* line 476: options.scope ? [options.scope] : []
RetryScopeArg(options) ==
    IF Truthy(options.scope) THEN ScopeArgArray(<<options.scope>>) ELSE ScopeArgArray(<<>>)

\* ---------------------------------------------------- the request builder
NoHeader == <<>>

\* stringify of @d-fischer/qs on the form bodies of the model
QsStringify(o) == IF o = "{game: 'a b'}" THEN "game=a%20b" ELSE ""

\* JSON.stringify on the JSON bodies of the model
JSONStringify(v) == IF v = "{game: 'a b'}" THEN "{\"game\":\"a b\"}" ELSE "false"

\* line 352: the type of a call without options.type is Kraken
TypeOf(options) == IF options.type = Undefined THEN Kraken ELSE options.type

\* faulty variant of AcceptHeader: the version is taken for every type
AcceptHeaderAnyType(options) ==
    <<"application/vnd.twitchtv.v",
      IF TruthyNumber(options.version) THEN options.version[1] ELSE 5, "+json">>

\* lines 355-360: the Accept header
AcceptHeader(options) ==
    IF TypeOf(options) = Kraken
    THEN <<"application/vnd.twitchtv.v",
           IF TruthyNumber(options.version) THEN options.version[1] ELSE 5, "+json">>
    ELSE <<"application/json">>

\* faulty variant of RequestBody: jsonBody is looked at first
RequestBodyJsonFirst(options) ==
    IF TruthyValue(options.jsonBody)
    THEN [body |-> JSONStringify(options.jsonBody), contentType |-> <<"application/json">>]
    ELSE IF TruthyValue(options.body)
         THEN [body |-> QsStringify(options.body),
               contentType |-> <<"application/x-www-form-urlencoded">>]
         ELSE [body |-> Undefined, contentType |-> NoHeader]

\* lines 362-369: the body and the Content-Type headers appended for it
RequestBody(options) ==
    IF TruthyValue(options.body)
    THEN [body |-> QsStringify(options.body),
          contentType |-> <<"application/x-www-form-urlencoded">>]
    ELSE IF TruthyValue(options.jsonBody)
         THEN [body |-> JSONStringify(options.jsonBody), contentType |-> <<"application/json">>]
         ELSE [body |-> Undefined, contentType |-> NoHeader]

\* faulty variant of AuthorizationHeader: the scheme is Bearer for every type
AuthorizationHeaderBearer(options, accessToken) ==
    IF Truthy(accessToken) THEN <<"Bearer", accessToken>> ELSE NoHeader

\* lines 375-377: the Authorization header
AuthorizationHeader(options, accessToken) ==
    IF Truthy(accessToken)
    THEN <<IF TypeOf(options) = Helix THEN "Bearer" ELSE "OAuth", accessToken>>
    ELSE NoHeader

\* lines 371-373: the Client-ID header
ClientIdHeader(options, clientId) ==
    IF Truthy(clientId) /\ TypeOf(options) # Auth THEN <<clientId>> ELSE NoHeader

\* _callAPIRaw, lines 352-383: the request given to fetch
BuildRequest(options, clientId, accessToken) ==
    [type |-> TypeOf(options),
     accept |-> AcceptHeader(options),
     contentType |-> RequestBody(options).contentType,
     body |-> RequestBody(options).body,
     clientIdHeader |-> ClientIdHeader(options, clientId),
     authorization |-> AuthorizationHeader(options, accessToken)]

NoRequest ==
    [type |-> Undefined, accept |-> NoHeader, contentType |-> NoHeader, body |-> Undefined,
     clientIdHeader |-> NoHeader, authorization |-> NoHeader]

\* ------------------------------------------------------------- responses
Statuses == {200, 204, 401, 404}
Bodies == {"", "[1]", "<html>"}

\* rate-limit metadata of a response (ratelimit headers)
\* remaining slots, size of the bucket, and the time left until it resets
NoMeta == [remaining |-> 0, capacity |-> 0, resetIn |-> 0]

Metas == [remaining : 0..MaxCapacity, capacity : {MaxCapacity}, resetIn : {1}]

Responses(statuses, bodies, metas) == [status : statuses, body : bodies, meta : metas]

NoResponse == [status |-> 0, body |-> "", meta |-> NoMeta]

\* Response.ok
Ok(status) == status >= 200 /\ status <= 299

\* JSON.parse / Response.json() on the body texts of the model
JSONValid(text) == text = "[1]"
JSONParse(text) == IF text = "[1]" THEN <<1>> ELSE <<>>

Pending == [kind |-> "pending", status |-> 0, value |-> <<>>]
Failure(kind) == [kind |-> kind, status |-> 0, value |-> <<>>]

\* faulty variant of TransformResponse: the test for an empty text is missing,
\* the empty body of a response that is ok goes to JSON.parse
TransformResponseParsesEmpty(response) ==
    IF ~Ok(response.status)
    THEN IF JSONValid(response.body)
         THEN [kind |-> "HTTPStatusCodeError", status |-> response.status,
               value |-> JSONParse(response.body)]
         ELSE Failure("SyntaxError")
    ELSE IF response.status = 204
         THEN [kind |-> "undefined", status |-> 0, value |-> <<>>]
         ELSE IF JSONValid(response.body)
              THEN [kind |-> "value", status |-> 0, value |-> JSONParse(response.body)]
              ELSE Failure("SyntaxError")

\* faulty variant of TransformResponse: the test of response.ok is missing,
\* a response that is not ok is decoded like any other
TransformResponseNoOkTest(response) ==
    IF response.status = 204
    THEN [kind |-> "undefined", status |-> 0, value |-> <<>>]
    ELSE IF response.body = ""
         THEN [kind |-> "undefined", status |-> 0, value |-> <<>>]
         ELSE IF JSONValid(response.body)
              THEN [kind |-> "value", status |-> 0, value |-> JSONParse(response.body)]
              ELSE Failure("SyntaxError")

\* _transformResponse, lines 552-570
TransformResponse(response) ==
    IF ~Ok(response.status)
    THEN IF JSONValid(response.body)
         THEN [kind |-> "HTTPStatusCodeError", status |-> response.status,
               value |-> JSONParse(response.body)]
         ELSE Failure("SyntaxError")
    ELSE IF response.status = 204
         THEN [kind |-> "undefined", status |-> 0, value |-> <<>>]
         ELSE IF response.body = ""
              THEN [kind |-> "undefined", status |-> 0, value |-> <<>>]
              ELSE IF JSONValid(response.body)
                   THEN [kind |-> "value", status |-> 0, value |-> JSONParse(response.body)]
                   ELSE Failure("SyntaxError")

\* callAPI was not called by getTokenInfo
NotCalled == [kind |-> "none", status |-> 0, value |-> <<>>]

\* faulty variant of GetTokenInfoResult: the catch clause rethrows whatever it
\* caught
GetTokenInfoResultRethrown(o) ==
    IF o.kind \in {"value", "undefined"}
    THEN [kind |-> "TokenInfo", status |-> 0, value |-> o.value]
    ELSE o

\* getTokenInfo, lines 329-341 and 422-430: what it makes of the way its
\* callAPI settled; o is the value or the error of callAPI
GetTokenInfoResult(o) ==
    IF o.kind \in {"value", "undefined"}
    THEN [kind |-> "TokenInfo", status |-> 0, value |-> o.value]
    ELSE IF o.kind = "HTTPStatusCodeError" /\ o.status = 401
         THEN Failure("InvalidTokenError")
         ELSE o

\* ------------------------------------------------------------------ state
VARIABLES
    inputs,       \* what the callers, the provider and the transport of the run can do
    hasRefresh,   \* whether authProvider.refresh is defined
    pc,           \* per call: the await the call is suspended at
    opts,         \* per call: the options argument of callAPI
    accessToken,  \* per call: the local variable accessToken of callAPI
    response,     \* per call: the local variable response of callAPI
    outcome,      \* per call: how the promise returned by callAPI settled
    tokenInfo,    \* per call: how the promise returned by getTokenInfo settled
    log,          \* per call: the provider, limiter and transport calls made
    queue,        \* the rate limiter's queue of waiting requests
    bucket        \* the rate limiter's bucket

vars == <<inputs, hasRefresh, pc, opts, accessToken, response, outcome, tokenInfo,
          log, queue, bucket>>

limiterVars == <<queue, bucket>>

\* ------------------------------------------------------------ log entries
LogEntry(ev, scope, via, req, token, expired, status, body) ==
    [ev |-> ev, scope |-> scope, via |-> via, req |-> req, token |-> token,
     expired |-> expired, status |-> status, body |-> body, clientId |-> Undefined]

\* the static callAPI is called with clientId and with token as accessToken
StaticCallEv(clientId, token) ==
    [LogEntry("callAPI", ScopeArgUndefined, "", NoRequest, token, FALSE, 0, "")
        EXCEPT !.clientId = clientId]

\* getAccessToken is called with scopeArg
GetAccessTokenEv(scopeArg) ==
    LogEntry("getAccessToken", scopeArg, "", NoRequest, "", FALSE, 0, "")
\* getAccessToken resolved with token (NullToken: with no token)
TokenEv(token) ==
    LogEntry("token", ScopeArgUndefined, "", NoRequest, token.accessToken, token.isExpired, 0, "")
\* refresh is called
RefreshEv ==
    LogEntry("refresh", ScopeArgUndefined, "", NoRequest, "", FALSE, 0, "")
\* refresh resolved with token
RefreshedEv(token) ==
    LogEntry("refreshed", ScopeArgUndefined, "", NoRequest, token.accessToken, token.isExpired, 0, "")
\* getAccessToken or refresh rejected
RejectedEv ==
    LogEntry("rejected", ScopeArgUndefined, "", NoRequest, "", FALSE, 0, "")
\* the limiter's request is called with req; how: "dispatch" at once or "queue"
LimiterEv(how, req) ==
    LogEntry("limiter", ScopeArgUndefined, how, req, "", FALSE, 0, "")
\* fetch is called with req, by the limiter ("limiter") or not ("direct")
FetchEv(via, req) ==
    LogEntry("fetch", ScopeArgUndefined, via, req, "", FALSE, 0, "")
\* fetch resolved with a response
ResponseEv(r) ==
    LogEntry("response", ScopeArgUndefined, "", NoRequest, "", FALSE, r.status, r.body)
\* fetch rejected
FetchFailedEv ==
    LogEntry("fetchFailed", ScopeArgUndefined, "", NoRequest, "", FALSE, 0, "")

\* ------------------------------------------------------- the rate limiter
InQueue(c) == \E i \in 1..Len(queue) : queue[i].call = c

\* faulty variant of CanDispatch: the bucket is never looked at
CanDispatchAlways(b) == TRUE

\* the bucket has a slot, or its reset time has elapsed
CanDispatch(b) == b.remaining > 0 \/ b.resetIn = 0

\* the optimistic local decrement; an elapsed reset time starts a full bucket
Consume(b) ==
    IF b.remaining > 0
    THEN [b EXCEPT !.remaining = @ - 1]
    ELSE [b EXCEPT !.remaining = b.capacity - 1]

\* HelixRateLimiter.request: dispatch at once when nothing waits and the
\* bucket allows it, else wait in the queue behind the earlier requests
LimiterRequest(c, lg, req) ==
    IF queue = <<>> /\ CanDispatch(bucket)
       THEN /\ bucket' = Consume(bucket)
            /\ log' = [log EXCEPT ![c] =
                          Append(Append(lg, LimiterEv("dispatch", req)), FetchEv("limiter", req))]
            /\ UNCHANGED queue
       ELSE /\ queue' = Append(queue, [call |-> c, req |-> req])
            /\ log' = [log EXCEPT ![c] = Append(lg, LimiterEv("queue", req))]
            /\ UNCHANGED bucket

\* _callAPIRaw, line 385: the request goes to fetch
CallAPIRaw(c, lg, req) ==
    log' = [log EXCEPT ![c] = Append(lg, FetchEv("direct", req))]

\* _callAPIInternal, lines 529-535
CallAPIInternal(c, lg, options, clientId, token) ==
    IF options.type = Helix
    THEN LimiterRequest(c, lg, BuildRequest(options, clientId, token))
    ELSE /\ CallAPIRaw(c, lg, BuildRequest(options, clientId, token))
         /\ UNCHANGED limiterVars

\* the call's promise settles and the locals of callAPI are gone; a
\* getTokenInfo that awaits the call settles on it
Settle(c, o) ==
    /\ outcome' = [outcome EXCEPT ![c] = o]
    /\ tokenInfo' = [tokenInfo EXCEPT ![c] =
                        IF @ = NotCalled THEN NotCalled ELSE GetTokenInfoResult(o)]
    /\ pc' = [pc EXCEPT ![c] = "done"]
    /\ accessToken' = [accessToken EXCEPT ![c] = NullToken]
    /\ response' = [response EXCEPT ![c] = NoResponse]

\* ------------------------------------------------------------------- Init
\* one call: of the client, with any type and scope, any provider behaviour
\* and any response, or of the static callAPI, with any options
AnyCall ==
    [calls |-> {1},
     options |-> PlainOptions,
     builds |-> TwitchAPICallType \cup {Undefined},
     tokens |-> GetAccessTokenResults,
     refreshes |-> RefreshResults,
     statuses |-> Statuses,
     bodies |-> Bodies]

\* Helix calls of every caller, made with a token the provider has
HelixTraffic ==
    [calls |-> Calls,
     options |-> {[NoOptions EXCEPT !.type = Helix]},
     builds |-> {},
     tokens |-> {Resolved([accessToken |-> "tokA", isExpired |-> FALSE])},
     refreshes |-> {Resolved([accessToken |-> "tokB", isExpired |-> FALSE])},
     statuses |-> {200, 401},
     bodies |-> {"[1]"}]

InitWith(in) ==
    /\ inputs = in
    /\ hasRefresh \in BOOLEAN
    /\ pc = [c \in Calls |-> "start"]
    /\ opts = [c \in Calls |-> NoOptions]
    /\ accessToken = [c \in Calls |-> NullToken]
    /\ response = [c \in Calls |-> NoResponse]
    /\ outcome = [c \in Calls |-> Pending]
    /\ tokenInfo = [c \in Calls |-> NotCalled]
    /\ log = [c \in Calls |-> <<>>]
    /\ queue = <<>>
    /\ bucket = [remaining |-> MaxCapacity, capacity |-> MaxCapacity, resetIn |-> 0]

Init == InitWith(AnyCall)

InitLimiter == InitWith(HelixTraffic)

\* ---------------------------------------------------------------- actions
\* callAPI is called: line 464 calls getAccessToken and awaits it
CallAPI(c) ==
    /\ pc[c] = "start"
    /\ c \in inputs.calls
    /\ \E o \in inputs.options :
        /\ opts' = [opts EXCEPT ![c] = o]
        /\ log' = [log EXCEPT ![c] = Append(@, GetAccessTokenEv(InitialScopeArg(o)))]
    /\ pc' = [pc EXCEPT ![c] = "awaitToken"]
    /\ UNCHANGED <<inputs, hasRefresh, accessToken, response, outcome, tokenInfo>>
    /\ UNCHANGED limiterVars

\* the options getTokenInfo calls callAPI with, lines 331 and 423
ValidateOptions == [NoOptions EXCEPT !.type = Auth]

\* getTokenInfo of the client is called, lines 421-423: it calls callAPI,
\* whose line 464 calls getAccessToken and awaits it
GetTokenInfo(c) ==
    /\ pc[c] = "start"
    /\ c \in inputs.calls
    /\ ValidateOptions \in inputs.options
    /\ opts' = [opts EXCEPT ![c] = ValidateOptions]
    /\ tokenInfo' = [tokenInfo EXCEPT ![c] = Pending]
    /\ log' = [log EXCEPT ![c] = Append(@, GetAccessTokenEv(InitialScopeArg(ValidateOptions)))]
    /\ pc' = [pc EXCEPT ![c] = "awaitToken"]
    /\ UNCHANGED <<inputs, hasRefresh, accessToken, response, outcome>>
    /\ UNCHANGED limiterVars

\* the arguments clientId and accessToken of the static operations
ClientIdArgs == {Undefined, "", ProviderClientId}
AccessTokenArgs == {Undefined, "", "tokA"}

\* static callAPI, lines 244-245: _callAPIRaw builds the request from the
\* arguments, sends it and the response is awaited
StaticCallAPIWith(c, options, clientId, token) ==
    /\ pc[c] = "start"
    /\ c \in inputs.calls
    /\ CallAPIRaw(c, Append(log[c], StaticCallEv(clientId, token)),
                  BuildRequest(options, clientId, token))
    /\ opts' = [opts EXCEPT ![c] = options]
    /\ pc' = [pc EXCEPT ![c] = "awaitFallback"]
    /\ UNCHANGED <<inputs, hasRefresh, accessToken, response, outcome>>
    /\ UNCHANGED limiterVars

\* the static callAPI is called, with options of any body and version; it
\* does not read options.scope
StaticCallAPI(c) ==
    /\ pc[c] = "start"
    /\ c \in inputs.calls
    /\ \E options \in TwitchAPICallOptions, clientId \in ClientIdArgs, token \in AccessTokenArgs :
          /\ options.type \in inputs.builds
          /\ options.scope = Undefined
          /\ StaticCallAPIWith(c, options, clientId, token)
    /\ UNCHANGED tokenInfo

\* the static getTokenInfo is called, lines 328-334: it calls the static
\* callAPI with its arguments
StaticGetTokenInfo(c) ==
    /\ pc[c] = "start"
    /\ c \in inputs.calls
    /\ ValidateOptions \in inputs.options
    /\ \E token \in AccessTokenArgs \ {Undefined}, clientId \in ClientIdArgs :
          StaticCallAPIWith(c, ValidateOptions, clientId, token)
    /\ tokenInfo' = [tokenInfo EXCEPT ![c] = Pending]

\* lines 464-473: getAccessToken settles; no token falls back to the static
\* callAPI, an expired token is refreshed, any other token is dispatched
TokenAcquired(c) ==
    /\ pc[c] = "awaitToken"
    /\ \E res \in inputs.tokens :
        IF ~res.ok
        THEN /\ Settle(c, Failure("ProviderError"))
             /\ log' = [log EXCEPT ![c] = Append(@, RejectedEv)]
             /\ UNCHANGED limiterVars
        ELSE IF res.token = NullToken
        THEN /\ CallAPIRaw(c, Append(log[c], TokenEv(res.token)),
                             BuildRequest(opts[c], ProviderClientId, Undefined))
             /\ pc' = [pc EXCEPT ![c] = "awaitFallback"]
             /\ UNCHANGED <<accessToken, response, outcome, tokenInfo>>
             /\ UNCHANGED limiterVars
        ELSE IF res.token.isExpired /\ hasRefresh
        THEN /\ accessToken' = [accessToken EXCEPT ![c] = res.token]
             /\ log' = [log EXCEPT ![c] = Append(Append(@, TokenEv(res.token)), RefreshEv)]
             /\ pc' = [pc EXCEPT ![c] = "awaitRefresh"]
             /\ UNCHANGED <<response, outcome, tokenInfo>>
             /\ UNCHANGED limiterVars
        ELSE /\ accessToken' = [accessToken EXCEPT ![c] = res.token]
             /\ CallAPIInternal(c, Append(log[c], TokenEv(res.token)),
                                opts[c], ProviderClientId, res.token.accessToken)
             /\ pc' = [pc EXCEPT ![c] = "awaitResponse"]
             /\ UNCHANGED <<response, outcome, tokenInfo>>
    /\ UNCHANGED <<inputs, hasRefresh, opts>>

\* faulty variant of ExpiredRefreshed: the token refresh resolved with is not
\* assigned, the expired token is dispatched
ExpiredRefreshedStale(c) ==
    /\ pc[c] = "awaitRefresh"
    /\ \E res \in inputs.refreshes :
        IF ~res.ok
        THEN /\ Settle(c, Failure("ProviderError"))
             /\ log' = [log EXCEPT ![c] = Append(@, RejectedEv)]
             /\ UNCHANGED limiterVars
        ELSE /\ CallAPIInternal(c, Append(log[c], RefreshedEv(res.token)),
                                opts[c], ProviderClientId, accessToken[c].accessToken)
             /\ pc' = [pc EXCEPT ![c] = "awaitResponse"]
             /\ UNCHANGED <<accessToken, response, outcome, tokenInfo>>
    /\ UNCHANGED <<inputs, hasRefresh, opts>>

\* lines 470-473: the refresh of an expired token settles; its token replaces
\* the acquired one and is dispatched
ExpiredRefreshed(c) ==
    /\ pc[c] = "awaitRefresh"
    /\ \E res \in inputs.refreshes :
        IF ~res.ok
        THEN /\ Settle(c, Failure("ProviderError"))
             /\ log' = [log EXCEPT ![c] = Append(@, RejectedEv)]
             /\ UNCHANGED limiterVars
        ELSE /\ accessToken' = [accessToken EXCEPT ![c] = res.token]
             /\ CallAPIInternal(c, Append(log[c], RefreshedEv(res.token)),
                                opts[c], ProviderClientId, res.token.accessToken)
             /\ pc' = [pc EXCEPT ![c] = "awaitResponse"]
             /\ UNCHANGED <<response, outcome, tokenInfo>>
    /\ UNCHANGED <<inputs, hasRefresh, opts>>

\* the metadata a response carries: the responses of the Helix API have the
\* bucket headers
MetasFor(c) == IF opts[c].type = Helix THEN Metas ELSE {NoMeta}

\* faulty variant of UpdateBucket: the reported values are merged with the
\* local ones, the slots taken since the dispatch stay taken
UpdateBucketMerged(b, meta) ==
    [meta EXCEPT !.remaining = IF b.remaining < @ THEN b.remaining ELSE @]

\* HelixRateLimiter: a completed dispatch overwrites the bucket
UpdateBucket(b, meta) == meta

ResponseBucket(c, r) ==
    bucket' = IF opts[c].type = Helix THEN UpdateBucket(bucket, r.meta) ELSE bucket

\* the request is with the transport, not waiting in the limiter
OnTheWire(c) == ~InQueue(c)

\* faulty variant of FetchFails: the rejection is caught and the call
\* resolves with undefined
FetchFailsSwallowed(c) ==
    /\ pc[c] \in {"awaitResponse", "awaitRetry", "awaitFallback"}
    /\ OnTheWire(c)
    /\ log' = [log EXCEPT ![c] = Append(@, FetchFailedEv)]
    /\ Settle(c, [kind |-> "undefined", status |-> 0, value |-> <<>>])
    /\ UNCHANGED <<inputs, hasRefresh, opts>>
    /\ UNCHANGED limiterVars

\* fetch rejects: the rejection passes through the awaits of _callAPIInternal
\* and callAPI, or of the static callAPI
FetchFails(c) ==
    /\ pc[c] \in {"awaitResponse", "awaitRetry", "awaitFallback"}
    /\ OnTheWire(c)
    /\ log' = [log EXCEPT ![c] = Append(@, FetchFailedEv)]
    /\ Settle(c, Failure("TransportError"))
    /\ UNCHANGED <<inputs, hasRefresh, opts>>
    /\ UNCHANGED limiterVars

\* faulty variant of Responded: a 401 is retried also when the provider has
\* no refresh, with the token getAccessToken gives then
RespondedReacquiring(c) ==
    /\ pc[c] = "awaitResponse"
    /\ OnTheWire(c)
    /\ \E r \in Responses(inputs.statuses, inputs.bodies, MetasFor(c)) :
        /\ ResponseBucket(c, r)
        /\ IF r.status = 401
           THEN /\ response' = [response EXCEPT ![c] = r]
                /\ IF hasRefresh
                   THEN /\ log' = [log EXCEPT ![c] =
                                      Append(Append(@, ResponseEv(r)), RefreshEv)]
                        /\ pc' = [pc EXCEPT ![c] = "await401Refresh"]
                   ELSE /\ log' = [log EXCEPT ![c] =
                                      Append(Append(@, ResponseEv(r)),
                                             GetAccessTokenEv(RetryScopeArg(opts[c])))]
                        /\ pc' = [pc EXCEPT ![c] = "awaitToken2"]
                /\ UNCHANGED <<accessToken, outcome, tokenInfo>>
           ELSE /\ log' = [log EXCEPT ![c] = Append(@, ResponseEv(r))]
                /\ Settle(c, TransformResponse(r))
    /\ UNCHANGED <<inputs, hasRefresh, opts, queue>>

\* faulty variant of Responded: refresh is single-flighted, a call that gets
\* a 401 while the refresh of another call is in flight calls no refresh of
\* its own
RespondedSingleFlight(c) ==
    /\ pc[c] = "awaitResponse"
    /\ OnTheWire(c)
    /\ \E r \in Responses(inputs.statuses, inputs.bodies, MetasFor(c)) :
        /\ ResponseBucket(c, r)
        /\ IF r.status = 401 /\ hasRefresh
           THEN /\ response' = [response EXCEPT ![c] = r]
                /\ IF \E d \in Calls : pc[d] = "await401Refresh"
                   THEN /\ log' = [log EXCEPT ![c] =
                                      Append(Append(@, ResponseEv(r)),
                                             GetAccessTokenEv(RetryScopeArg(opts[c])))]
                        /\ pc' = [pc EXCEPT ![c] = "awaitToken2"]
                   ELSE /\ log' = [log EXCEPT ![c] =
                                      Append(Append(@, ResponseEv(r)), RefreshEv)]
                        /\ pc' = [pc EXCEPT ![c] = "await401Refresh"]
                /\ UNCHANGED <<accessToken, outcome, tokenInfo>>
           ELSE /\ log' = [log EXCEPT ![c] = Append(@, ResponseEv(r))]
                /\ Settle(c, TransformResponse(r))
    /\ UNCHANGED <<inputs, hasRefresh, opts, queue>>

\* faulty variant of Responded: a 401 goes to the second getAccessToken
\* without calling refresh
RespondedNoRefresh(c) ==
    /\ pc[c] = "awaitResponse"
    /\ OnTheWire(c)
    /\ \E r \in Responses(inputs.statuses, inputs.bodies, MetasFor(c)) :
        /\ ResponseBucket(c, r)
        /\ IF r.status = 401 /\ hasRefresh
           THEN /\ response' = [response EXCEPT ![c] = r]
                /\ log' = [log EXCEPT ![c] =
                              Append(Append(@, ResponseEv(r)),
                                     GetAccessTokenEv(RetryScopeArg(opts[c])))]
                /\ pc' = [pc EXCEPT ![c] = "awaitToken2"]
                /\ UNCHANGED <<accessToken, outcome, tokenInfo>>
           ELSE /\ log' = [log EXCEPT ![c] = Append(@, ResponseEv(r))]
                /\ Settle(c, TransformResponse(r))
    /\ UNCHANGED <<inputs, hasRefresh, opts, queue>>

\* lines 473-475 and 482: the first response arrives, and it is r; a 401 with
\* a provider that can refresh starts the refresh, any other response is
\* decoded
RespondedWith(c, r) ==
    /\ pc[c] = "awaitResponse"
    /\ OnTheWire(c)
    /\ ResponseBucket(c, r)
    /\ IF r.status = 401 /\ hasRefresh
       THEN /\ response' = [response EXCEPT ![c] = r]
            /\ log' = [log EXCEPT ![c] = Append(Append(@, ResponseEv(r)), RefreshEv)]
            /\ pc' = [pc EXCEPT ![c] = "await401Refresh"]
            /\ UNCHANGED <<accessToken, outcome, tokenInfo>>
       ELSE /\ log' = [log EXCEPT ![c] = Append(@, ResponseEv(r))]
            /\ Settle(c, TransformResponse(r))
    /\ UNCHANGED <<inputs, hasRefresh, opts, queue>>

Responded(c) ==
    /\ pc[c] = "awaitResponse"
    /\ \E r \in Responses(inputs.statuses, inputs.bodies, MetasFor(c)) : RespondedWith(c, r)

\* faulty variant of UnauthorizedRefreshed: a rejection of refresh is caught
\* and the 401 response the call has is decoded
UnauthorizedRefreshedCaught(c) ==
    /\ pc[c] = "await401Refresh"
    /\ \E res \in inputs.refreshes :
        IF ~res.ok
        THEN /\ Settle(c, TransformResponse(response[c]))
             /\ log' = [log EXCEPT ![c] = Append(@, RejectedEv)]
        ELSE /\ log' = [log EXCEPT ![c] =
                           Append(Append(@, RefreshedEv(res.token)),
                                  GetAccessTokenEv(RetryScopeArg(opts[c])))]
             /\ pc' = [pc EXCEPT ![c] = "awaitToken2"]
             /\ UNCHANGED <<accessToken, response, outcome, tokenInfo>>
    /\ UNCHANGED <<inputs, hasRefresh, opts>>
    /\ UNCHANGED limiterVars

\* lines 475-476: the refresh after the 401 settles; its token is dropped
\* and getAccessToken is called again
UnauthorizedRefreshed(c) ==
    /\ pc[c] = "await401Refresh"
    /\ \E res \in inputs.refreshes :
        IF ~res.ok
        THEN /\ Settle(c, Failure("ProviderError"))
             /\ log' = [log EXCEPT ![c] = Append(@, RejectedEv)]
        ELSE /\ log' = [log EXCEPT ![c] =
                           Append(Append(@, RefreshedEv(res.token)),
                                  GetAccessTokenEv(RetryScopeArg(opts[c])))]
             /\ pc' = [pc EXCEPT ![c] = "awaitToken2"]
             /\ UNCHANGED <<accessToken, response, outcome, tokenInfo>>
    /\ UNCHANGED <<inputs, hasRefresh, opts>>
    /\ UNCHANGED limiterVars

\* faulty variant of TokenReacquired: the check of line 477 is missing, and
\* reading accessToken of no token throws
TokenReacquiredUnchecked(c) ==
    /\ pc[c] = "awaitToken2"
    /\ \E res \in inputs.tokens :
        IF ~res.ok
        THEN /\ Settle(c, Failure("ProviderError"))
             /\ log' = [log EXCEPT ![c] = Append(@, RejectedEv)]
             /\ UNCHANGED limiterVars
        ELSE IF res.token = NullToken
        THEN /\ Settle(c, Failure("TypeError"))
             /\ log' = [log EXCEPT ![c] = Append(@, TokenEv(res.token))]
             /\ UNCHANGED limiterVars
        ELSE /\ accessToken' = [accessToken EXCEPT ![c] = res.token]
             /\ CallAPIInternal(c, Append(log[c], TokenEv(res.token)),
                                opts[c], ProviderClientId, res.token.accessToken)
             /\ pc' = [pc EXCEPT ![c] = "awaitRetry"]
             /\ UNCHANGED <<response, outcome, tokenInfo>>
    /\ UNCHANGED <<inputs, hasRefresh, opts>>

\* lines 476-482: the second getAccessToken settles; a token is dispatched,
\* no token decodes the response the call already has
TokenReacquired(c) ==
    /\ pc[c] = "awaitToken2"
    /\ \E res \in inputs.tokens :
        IF ~res.ok
        THEN /\ Settle(c, Failure("ProviderError"))
             /\ log' = [log EXCEPT ![c] = Append(@, RejectedEv)]
             /\ UNCHANGED limiterVars
        ELSE IF res.token = NullToken
        THEN /\ Settle(c, TransformResponse(response[c]))
             /\ log' = [log EXCEPT ![c] = Append(@, TokenEv(res.token))]
             /\ UNCHANGED limiterVars
        ELSE /\ accessToken' = [accessToken EXCEPT ![c] = res.token]
             /\ CallAPIInternal(c, Append(log[c], TokenEv(res.token)),
                                opts[c], ProviderClientId, res.token.accessToken)
             /\ pc' = [pc EXCEPT ![c] = "awaitRetry"]
             /\ UNCHANGED <<response, outcome, tokenInfo>>
    /\ UNCHANGED <<inputs, hasRefresh, opts>>

\* faulty variant of RetryResponded: a 401 to the retry starts another refresh
RetryRespondedAgain(c) ==
    /\ pc[c] = "awaitRetry"
    /\ OnTheWire(c)
    /\ \E r \in Responses(inputs.statuses, inputs.bodies, MetasFor(c)) :
        /\ ResponseBucket(c, r)
        /\ IF r.status = 401 /\ hasRefresh
           THEN /\ response' = [response EXCEPT ![c] = r]
                /\ log' = [log EXCEPT ![c] = Append(Append(@, ResponseEv(r)), RefreshEv)]
                /\ pc' = [pc EXCEPT ![c] = "await401Refresh"]
                /\ UNCHANGED <<accessToken, outcome, tokenInfo>>
           ELSE /\ log' = [log EXCEPT ![c] = Append(@, ResponseEv(r))]
                /\ Settle(c, TransformResponse(r))
    /\ UNCHANGED <<inputs, hasRefresh, opts, queue>>

\* lines 478-482: the response to the retry arrives, it is r, and is decoded
RetryRespondedWith(c, r) ==
    /\ pc[c] = "awaitRetry"
    /\ OnTheWire(c)
    /\ ResponseBucket(c, r)
    /\ log' = [log EXCEPT ![c] = Append(@, ResponseEv(r))]
    /\ Settle(c, TransformResponse(r))
    /\ UNCHANGED <<inputs, hasRefresh, opts, queue>>

RetryResponded(c) ==
    /\ pc[c] = "awaitRetry"
    /\ \E r \in Responses(inputs.statuses, inputs.bodies, MetasFor(c)) : RetryRespondedWith(c, r)

\* faulty variant of FallbackResponded: a 401 to the call made without a
\* token starts the refresh of callAPI
FallbackRespondedRefreshing(c) ==
    /\ pc[c] = "awaitFallback"
    /\ \E r \in Responses(inputs.statuses, inputs.bodies, MetasFor(c)) :
        IF r.status = 401 /\ hasRefresh
        THEN /\ response' = [response EXCEPT ![c] = r]
             /\ log' = [log EXCEPT ![c] = Append(Append(@, ResponseEv(r)), RefreshEv)]
             /\ pc' = [pc EXCEPT ![c] = "await401Refresh"]
             /\ UNCHANGED <<accessToken, outcome, tokenInfo>>
        ELSE /\ log' = [log EXCEPT ![c] = Append(@, ResponseEv(r))]
             /\ Settle(c, TransformResponse(r))
    /\ UNCHANGED <<inputs, hasRefresh, opts>>
    /\ UNCHANGED limiterVars

\* static callAPI, lines 245-247: the response to the call made without a
\* token arrives, it is r, and is decoded; the limiter has no part in it
FallbackRespondedWith(c, r) ==
    /\ pc[c] = "awaitFallback"
    /\ log' = [log EXCEPT ![c] = Append(@, ResponseEv(r))]
    /\ Settle(c, TransformResponse(r))
    /\ UNCHANGED <<inputs, hasRefresh, opts>>
    /\ UNCHANGED limiterVars

FallbackResponded(c) ==
    /\ pc[c] = "awaitFallback"
    /\ \E r \in Responses(inputs.statuses, inputs.bodies, MetasFor(c)) : FallbackRespondedWith(c, r)

\* faulty variant of LimiterDrain: the request that arrived last goes first
LimiterDrainNewest ==
    /\ queue # <<>>
    /\ bucket.resetIn = 0
    /\ LET last == queue[Len(queue)]
       IN /\ queue' = SubSeq(queue, 1, Len(queue) - 1)
          /\ bucket' = Consume(bucket)
          /\ log' = [log EXCEPT ![last.call] = Append(@, FetchEv("limiter", last.req))]
    /\ UNCHANGED <<inputs, hasRefresh, pc, opts, accessToken, response, outcome, tokenInfo>>

\* HelixRateLimiter: the reset time has elapsed and the request that waited
\* longest goes to the transport
LimiterDrain ==
    /\ queue # <<>>
    /\ bucket.resetIn = 0
    /\ LET head == Head(queue)
       IN /\ queue' = Tail(queue)
          /\ bucket' = Consume(bucket)
          /\ log' = [log EXCEPT ![head.call] = Append(@, FetchEv("limiter", head.req))]
    /\ UNCHANGED <<inputs, hasRefresh, pc, opts, accessToken, response, outcome, tokenInfo>>

\* time passes: the bucket's reset time comes nearer
Tick ==
    /\ bucket.resetIn > 0
    /\ bucket' = [bucket EXCEPT !.resetIn = @ - 1]
    /\ UNCHANGED <<inputs, hasRefresh, pc, opts, accessToken, response, outcome, tokenInfo, log, queue>>

Next ==
    \/ \E c \in Calls : CallAPI(c)
    \/ \E c \in Calls : GetTokenInfo(c)
    \/ \E c \in Calls : StaticGetTokenInfo(c)
    \/ \E c \in Calls : StaticCallAPI(c)
    \/ \E c \in Calls : TokenAcquired(c)
    \/ \E c \in Calls : ExpiredRefreshed(c)
    \/ \E c \in Calls : Responded(c)
    \/ \E c \in Calls : UnauthorizedRefreshed(c)
    \/ \E c \in Calls : TokenReacquired(c)
    \/ \E c \in Calls : RetryResponded(c)
    \/ \E c \in Calls : FallbackResponded(c)
    \/ \E c \in Calls : FetchFails(c)
    \/ LimiterDrain
    \/ Tick

Spec == Init /\ [][Next]_vars

\* the calls of Helix traffic: the provider has a token, so no call takes
\* the expiry refresh or the call without a token
NextLimiter ==
    \/ \E c \in Calls : CallAPI(c)
    \/ \E c \in Calls : TokenAcquired(c)
    \/ \E c \in Calls : Responded(c)
    \/ \E c \in Calls : UnauthorizedRefreshed(c)
    \/ \E c \in Calls : TokenReacquired(c)
    \/ \E c \in Calls : RetryResponded(c)
    \/ \E c \in Calls : FetchFails(c)
    \/ LimiterDrain
    \/ Tick

SpecLimiter == InitLimiter /\ [][NextLimiter]_vars

TypeOK ==
    /\ hasRefresh \in BOOLEAN
    /\ \A c \in Calls : opts[c] \in TwitchAPICallOptions
    /\ \A c \in Calls : accessToken[c] \in AccessTokens \cup {NullToken}
    /\ \A c \in Calls : tokenInfo[c] = NotCalled \/ opts[c] = ValidateOptions
    /\ bucket.remaining \in 0..MaxCapacity
    /\ bucket.resetIn \in 0..1

\* ------------------------------------------------- reading a call's log
Pos(c) == 1..Len(log[c])

EvPos(c, ev) == {i \in Pos(c) : log[c][i].ev = ev}

\* callAPI hands the request to _callAPIInternal or to the static callAPI
IsDispatch(e) == e.ev = "limiter" \/ (e.ev = "fetch" /\ e.via = "direct")

DispatchPos(c) == {i \in Pos(c) : IsDispatch(log[c][i])}

Least(S) == CHOOSE x \in S : \A y \in S : x <= y

Greatest(S) == CHOOSE x \in S : \A y \in S : x >= y

After(S, i) == {j \in S : j > i}

Before(S, i) == {j \in S : j < i}

\* the token the first getAccessToken resolved with
HasAcquired(c) == EvPos(c, "token") # {}
Acquired(c) == log[c][Least(EvPos(c, "token"))]

\* the token the second getAccessToken resolved with
HasReacquired(c) == Cardinality(EvPos(c, "token")) = 2
Reacquired(c) == log[c][Greatest(EvPos(c, "token"))]

HasResponse(c) == EvPos(c, "response") # {}
FirstResponsePos(c) == Least(EvPos(c, "response"))
FirstResponse(c) == log[c][FirstResponsePos(c)]

HasRetryResponse(c) == Cardinality(EvPos(c, "response")) = 2
RetryResponsePos(c) == Greatest(EvPos(c, "response"))
RetryResponse(c) == log[c][RetryResponsePos(c)]

\* the call went on with a token, and its first response is a 401 that the
\* provider's refresh can answer
Unauthorized(c) ==
    /\ hasRefresh
    /\ HasAcquired(c) /\ Acquired(c).token # Undefined
    /\ HasResponse(c) /\ FirstResponse(c).status = 401

HTTPStatusCodeError(status, body) ==
    [kind |-> "HTTPStatusCodeError", status |-> status, value |-> JSONParse(body)]

\* how a call ends on a response that is not ok
ErrorOf(e) ==
    IF JSONValid(e.body) THEN HTTPStatusCodeError(e.status, e.body) ELSE Failure("SyntaxError")

\* ------------------------------------------------------------------ claims

\* C1 (as amended): a call dispatches its request at most twice, the second
\* time only after a first response of status 401; when the response to the
\* second dispatch is 401 again, no refresh and no dispatch follows it and the
\* call ends with an HTTPStatusCodeError of status 401 when the body of that
\* response is JSON, and with the failure to parse that body when it is not.
C1_AtMostOneRetry ==
    \A c \in Calls :
        /\ Cardinality(DispatchPos(c)) <= 2
        /\ Cardinality(EvPos(c, "fetch")) <= 2
        /\ \A d \in DispatchPos(c) :
              d # Least(DispatchPos(c)) =>
                  /\ HasResponse(c)
                  /\ FirstResponsePos(c) < d
                  /\ FirstResponse(c).status = 401
        /\ (HasRetryResponse(c) /\ RetryResponse(c).status = 401) =>
              /\ After(EvPos(c, "refresh") \cup DispatchPos(c) \cup EvPos(c, "fetch"),
                       RetryResponsePos(c)) = {}
              /\ pc[c] = "done"
              /\ outcome[c] = ErrorOf(RetryResponse(c))
              /\ outcome[c].kind = "HTTPStatusCodeError" => outcome[c].status = 401

\* C1 as stated: the second 401 always ends the call with an
\* HTTPStatusCodeError of status 401.
C1_Original ==
    \A c \in Calls :
        (HasRetryResponse(c) /\ RetryResponse(c).status = 401) =>
            /\ pc[c] = "done"
            /\ outcome[c].kind = "HTTPStatusCodeError"
            /\ outcome[c].status = 401

\* a call got a 401, refreshed, dispatched again, got a second 401 and
\* ended with the HTTPStatusCodeError
C1_Witness ==
    \E c \in Calls :
        /\ HasRetryResponse(c) /\ RetryResponse(c).status = 401
        /\ Cardinality(DispatchPos(c)) = 2
        /\ outcome[c].kind = "HTTPStatusCodeError" /\ outcome[c].status = 401

\* C2 (as amended): for a call that went on with a token, got a 401 as its
\* first response and has a provider that can refresh, the handling of the
\* 401 calls refresh exactly once (a call whose acquired token was expired has
\* called it once more, before the first dispatch), and the request is
\* dispatched again exactly once when that refresh and the second
\* getAccessToken resolve with a token, and not at all otherwise.
C2_RefreshAndRetry ==
    \A c \in Calls :
        Unauthorized(c) =>
            /\ Cardinality(After(EvPos(c, "refresh"), FirstResponsePos(c))) = 1
            /\ Cardinality(Before(EvPos(c, "refresh"), FirstResponsePos(c)))
                  = IF Acquired(c).expired THEN 1 ELSE 0
            /\ Cardinality(After(DispatchPos(c), FirstResponsePos(c)))
                  = IF HasReacquired(c) /\ Reacquired(c).token # Undefined THEN 1 ELSE 0
            /\ Cardinality(Before(DispatchPos(c), FirstResponsePos(c))) = 1

\* C2 as stated: a call whose first response was a 401, with a provider that
\* can refresh and gives a token again, has called refresh exactly once and
\* dispatched exactly twice, whether the token it acquired was expired or not.
C2_Original ==
    \A c \in Calls :
        (Unauthorized(c) /\ HasReacquired(c) /\ Reacquired(c).token # Undefined) =>
            /\ Cardinality(EvPos(c, "refresh")) = 1
            /\ Cardinality(DispatchPos(c)) = 2

\* a call acquired an expired token, refreshed it, got a 401, refreshed again
\* and dispatched a second time
C2_Witness ==
    \E c \in Calls :
        /\ Unauthorized(c)
        /\ Acquired(c).expired
        /\ Cardinality(EvPos(c, "refresh")) = 2
        /\ Cardinality(DispatchPos(c)) = 2
        /\ pc[c] = "done"

\* C3: when the acquired token is expired and the provider can refresh, the
\* first dispatch comes after refresh was called and has resolved, and its
\* Authorization header carries the token refresh resolved with.
C3_RefreshBeforeDispatch ==
    \A c \in Calls :
        (hasRefresh /\ HasAcquired(c) /\ Acquired(c).expired /\ DispatchPos(c) # {}) =>
            LET d == Least(DispatchPos(c))
            IN \E i, j \in Pos(c) :
                  /\ i < j /\ j < d
                  /\ log[c][i].ev = "refresh"
                  /\ log[c][j].ev = "refreshed"
                  /\ Len(log[c][d].req.authorization) = 2
                  /\ log[c][d].req.authorization[2] = log[c][j].token
                  /\ \A f \in EvPos(c, "fetch") :
                        Before(EvPos(c, "response"), f) = {} =>
                            log[c][f].req.authorization = log[c][d].req.authorization

\* an expired token was refreshed and the request was sent with the new token,
\* which is not the expired one
C3_Witness ==
    \E c \in Calls :
        /\ hasRefresh /\ HasAcquired(c) /\ Acquired(c).expired
        /\ EvPos(c, "fetch") # {}
        /\ Len(log[c][Least(EvPos(c, "fetch"))].req.authorization) = 2
        /\ log[c][Least(EvPos(c, "fetch"))].req.authorization[2] # Acquired(c).token

\* C4: a Helix request reaches fetch only through the rate limiter, on every
\* path of callAPI, and a request of any other type never enters the limiter.
C4_HelixOnlyThroughLimiter ==
    \A c \in Calls :
        /\ \A f \in EvPos(c, "fetch") :
              log[c][f].via = "limiter" <=> opts[c].type = Helix
        /\ EvPos(c, "limiter") # {} => opts[c].type = Helix

\* C5 (as amended): when getAccessToken resolves with no token, the call makes
\* exactly one dispatch, straight to fetch, with no Authorization header and
\* with the provider's client id as Client-ID header unless the type is Auth,
\* for which the request carries none; refresh is never called and nothing is
\* dispatched again, whatever the response.
C5_Fallback ==
    \A c \in Calls :
        (HasAcquired(c) /\ Acquired(c).token = Undefined) =>
            /\ Cardinality(DispatchPos(c)) = 1
            /\ Cardinality(EvPos(c, "fetch")) = 1
            /\ EvPos(c, "refresh") = {}
            /\ EvPos(c, "limiter") = {}
            /\ Cardinality(EvPos(c, "getAccessToken")) = 1
            /\ LET req == log[c][Least(EvPos(c, "fetch"))].req
               IN /\ req.authorization = NoHeader
                  /\ req.clientIdHeader =
                        IF opts[c].type = Auth THEN NoHeader ELSE <<ProviderClientId>>

\* C5 as stated: the one dispatch carries the provider's client id.
C5_Original ==
    \A c \in Calls :
        (HasAcquired(c) /\ Acquired(c).token = Undefined) =>
            /\ Cardinality(EvPos(c, "fetch")) = 1
            /\ EvPos(c, "refresh") = {}
            /\ LET req == log[c][Least(EvPos(c, "fetch"))].req
               IN /\ req.authorization = NoHeader
                  /\ req.clientIdHeader = <<ProviderClientId>>

\* a call without a token got a 401 from a provider that can refresh, and
\* ended on it
C5_Witness ==
    \E c \in Calls :
        /\ HasAcquired(c) /\ Acquired(c).token = Undefined
        /\ hasRefresh
        /\ HasResponse(c) /\ FirstResponse(c).status = 401
        /\ pc[c] = "done"
        /\ log[c][Least(EvPos(c, "fetch"))].req.clientIdHeader = <<ProviderClientId>>

\* C6 (as amended): when the first response is a 401, the provider can
\* refresh and the second getAccessToken resolves with no token, nothing is
\* dispatched again and the 401 response is the one decoded: the call ends
\* with an HTTPStatusCodeError of status 401 when the body of that response is
\* JSON, and with the failure to parse that body when it is not.
C6_NoTokenAfterRefresh ==
    \A c \in Calls :
        (Unauthorized(c) /\ HasReacquired(c) /\ Reacquired(c).token = Undefined) =>
            /\ Cardinality(DispatchPos(c)) = 1
            /\ Cardinality(EvPos(c, "fetch")) <= 1
            /\ Cardinality(EvPos(c, "response")) = 1
            /\ pc[c] = "done"
            /\ outcome[c] = ErrorOf(FirstResponse(c))
            /\ outcome[c].kind = "HTTPStatusCodeError" => outcome[c].status = 401

\* C6 as stated: the call ends with an HTTPStatusCodeError of status 401.
C6_Original ==
    \A c \in Calls :
        (Unauthorized(c) /\ HasReacquired(c) /\ Reacquired(c).token = Undefined) =>
            /\ Cardinality(DispatchPos(c)) = 1
            /\ pc[c] = "done"
            /\ outcome[c].kind = "HTTPStatusCodeError"
            /\ outcome[c].status = 401

\* after a 401 and a refresh no token came back, and the call ended with the
\* HTTPStatusCodeError of the 401
C6_Witness ==
    \E c \in Calls :
        /\ Unauthorized(c) /\ HasReacquired(c) /\ Reacquired(c).token = Undefined
        /\ outcome[c] = HTTPStatusCodeError(401, "[1]")

\* C7: the second getAccessToken of a call gets the scope argument the first
\* one got, with and without options.scope.
C7_SameScope ==
    \A c \in Calls :
        \A i, j \in EvPos(c, "getAccessToken") : log[c][i].scope = log[c][j].scope

\* C8: a rejection of fetch, on the first dispatch or on the retry, is what
\* the caller gets; no refresh and no dispatch follows it, and a request is
\* dispatched a second time only after a 401 response with a provider that
\* can refresh.
C8_TransportFailure ==
    \A c \in Calls :
        /\ \A i \in EvPos(c, "fetchFailed") :
              /\ i = Len(log[c])
              /\ pc[c] = "done"
              /\ outcome[c] = Failure("TransportError")
        /\ \A d \in DispatchPos(c) :
              d # Least(DispatchPos(c)) =>
                  /\ hasRefresh
                  /\ Before(EvPos(c, "fetchFailed"), d) = {}
                  /\ Before(EvPos(c, "response"), d) # {}
                  /\ \A r \in Before(EvPos(c, "response"), d) : log[c][r].status = 401

\* fetch rejected on the retry of a call, after a 401 and a refresh
C8_Witness ==
    \E c \in Calls :
        /\ Cardinality(DispatchPos(c)) = 2
        /\ EvPos(c, "fetchFailed") # {}
        /\ outcome[c] = Failure("TransportError")

\* the limiter passed a request of c to fetch in this step
LimiterFetches(lg, c) ==
    Cardinality({i \in 1..Len(lg[c]) : lg[c][i].ev = "fetch" /\ lg[c][i].via = "limiter"})

LimiterSent(c) == LimiterFetches(log', c) > LimiterFetches(log, c)

\* a request of c entered the limiter in this step
LimiterArrivals(lg, c) == Cardinality({i \in 1..Len(lg[c]) : lg[c][i].ev = "limiter"})

LimiterArrived(c) == LimiterArrivals(log', c) > LimiterArrivals(log, c)

C10_NoOverdraw ==
    [][ LET k == Cardinality({c \in Calls : LimiterSent(c)})
        IN /\ bucket.remaining >= 0
           /\ bucket'.remaining >= 0
           /\ (k > 0 /\ bucket.resetIn > 0) =>
                  /\ k <= bucket.remaining
                  /\ bucket'.remaining = bucket.remaining - k
                  /\ bucket'.resetIn = bucket.resetIn
      ]_vars

\* the last slot of the bucket is taken by a request in flight, the reset time
\* has not elapsed and another request waits
C10_Witness ==
    \E c, d \in Calls :
        /\ c # d
        /\ bucket.remaining = 0 /\ bucket.resetIn > 0
        /\ InQueue(d)
        /\ pc[c] \in {"awaitResponse", "awaitRetry"} /\ OnTheWire(c)
        /\ log[c][Len(log[c]) - 1].ev = "limiter"
        /\ log[c][Len(log[c]) - 1].via = "dispatch"

\* C11: when a dispatch to the Helix API completes, on any path of callAPI,
\* the bucket is exactly the rate-limit metadata of that response (remaining,
\* capacity and reset time), whatever the bucket was before.
C11_BucketIsReported ==
    [][ \A c \in Calls :
            \A r \in Responses(inputs.statuses, inputs.bodies, Metas) :
                (/\ opts[c].type = Helix
                 /\ \/ RespondedWith(c, r)
                    \/ RetryRespondedWith(c, r)
                    \/ FallbackRespondedWith(c, r))
                    => bucket' = r.meta
      ]_vars

\* C11, for the dispatches the limiter makes: when one completes, the bucket
\* is exactly the rate-limit metadata of that response; the local decrements
\* of this dispatch and of the dispatches started since are overwritten, not
\* merged.
C11_BucketOverwritten ==
    [][ \A c \in Calls :
            \A r \in Responses(inputs.statuses, inputs.bodies, Metas) :
                (opts[c].type = Helix /\ (RespondedWith(c, r) \/ RetryRespondedWith(c, r)))
                    => bucket' = r.meta
      ]_vars

\* a response has reported a full bucket while the request of another call,
\* which took a slot before that response, is still with the transport
C11_Witness ==
    \E c, d \in Calls :
        /\ c # d
        /\ HasResponse(c)
        /\ pc[d] \in {"awaitResponse", "awaitRetry"} /\ OnTheWire(d)
        /\ log[d][Len(log[d])].ev = "fetch" /\ log[d][Len(log[d])].via = "limiter"
        /\ bucket = [remaining |-> MaxCapacity, capacity |-> MaxCapacity, resetIn |-> 1]

\* the response _transformResponse is called with: the last response of a
\* call that ended with nothing else dispatched or rejected after it
FinalResponsePos(c) == Greatest(EvPos(c, "response"))
FinalResponse(c) == log[c][FinalResponsePos(c)]

HasFinalResponse(c) ==
    /\ pc[c] = "done"
    /\ HasResponse(c)
    /\ After(DispatchPos(c) \cup EvPos(c, "fetch") \cup EvPos(c, "rejected")
                \cup EvPos(c, "fetchFailed"), FinalResponsePos(c)) = {}

\* C12 (as amended): a final response whose status is not 2xx never gives a
\* result or the empty result; the call fails with an HTTPStatusCodeError that
\* carries the status of the response and its parsed body when the body is
\* JSON, and with the failure to parse the body when it is not.
C12_NotOkFails ==
    \A c \in Calls :
        (HasFinalResponse(c) /\ ~Ok(FinalResponse(c).status)) =>
            /\ outcome[c].kind \in {"HTTPStatusCodeError", "SyntaxError"}
            /\ outcome[c].kind = "HTTPStatusCodeError" <=> JSONValid(FinalResponse(c).body)
            /\ outcome[c].kind = "HTTPStatusCodeError" =>
                  /\ outcome[c].status = FinalResponse(c).status
                  /\ outcome[c].value = JSONParse(FinalResponse(c).body)

\* C12 as stated: every final response that is not 2xx ends the call with an
\* HTTPStatusCodeError of that status.
C12_Original ==
    \A c \in Calls :
        (HasFinalResponse(c) /\ ~Ok(FinalResponse(c).status)) =>
            /\ outcome[c].kind = "HTTPStatusCodeError"
            /\ outcome[c].status = FinalResponse(c).status

\* a call ended on a 404 with a JSON body, as the HTTPStatusCodeError of it
C12_Witness ==
    \E c \in Calls :
        /\ HasFinalResponse(c)
        /\ FinalResponse(c).status = 404 /\ FinalResponse(c).body = "[1]"
        /\ outcome[c] = HTTPStatusCodeError(404, "[1]")

IsStatic(c) == tokenInfo[c] # NotCalled /\ EvPos(c, "callAPI") # {}

\* C14 (as amended): for the static getTokenInfo and the one of the client,
\* a final response of status 401 never surfaces as an HTTPStatusCodeError: it
\* surfaces as the InvalidTokenError when its body is JSON, and as the failure
\* to parse its body when it is not; every other failure of the call (any
\* other status that is not 2xx, a rejection of fetch or of the provider, a
\* parse failure) surfaces as it is, and the InvalidTokenError surfaces for
\* nothing but a final 401.
C14_InvalidToken ==
    \A c \in Calls :
        (tokenInfo[c] # NotCalled /\ pc[c] = "done") =>
            /\ (HasFinalResponse(c) /\ FinalResponse(c).status = 401) =>
                  /\ tokenInfo[c].kind # "HTTPStatusCodeError"
                  /\ tokenInfo[c] = IF JSONValid(FinalResponse(c).body)
                                    THEN Failure("InvalidTokenError")
                                    ELSE Failure("SyntaxError")
            /\ tokenInfo[c].kind = "InvalidTokenError" =>
                  /\ HasFinalResponse(c)
                  /\ FinalResponse(c).status = 401
            /\ ~(HasFinalResponse(c) /\ FinalResponse(c).status = 401) =>
                  \/ tokenInfo[c] = outcome[c]
                  \/ /\ outcome[c].kind \in {"value", "undefined"}
                     /\ tokenInfo[c].kind = "TokenInfo"

\* C14 as stated: a final response of status 401 always surfaces as the
\* InvalidTokenError.
C14_Original ==
    \A c \in Calls :
        (tokenInfo[c] # NotCalled /\ pc[c] = "done"
            /\ HasFinalResponse(c) /\ FinalResponse(c).status = 401) =>
            tokenInfo[c].kind = "InvalidTokenError"

\* the getTokenInfo of the client ended with the InvalidTokenError, on the
\* 401 that answered its retry
C14_Witness ==
    \E c \in Calls :
        /\ tokenInfo[c] = Failure("InvalidTokenError")
        /\ ~IsStatic(c)
        /\ HasRetryResponse(c) /\ RetryResponse(c).status = 401
        /\ outcome[c] = HTTPStatusCodeError(401, "[1]")

\* the static getTokenInfo ended with the InvalidTokenError
C14_WitnessStatic ==
    \E c \in Calls :
        /\ tokenInfo[c] = Failure("InvalidTokenError")
        /\ IsStatic(c)
        /\ HasFinalResponse(c) /\ FinalResponse(c).status = 401

\* C15: refresh is not single-flighted: every call that gets a 401 from a
\* provider that can refresh calls refresh itself, once, as the next thing it
\* does after the 401, whatever the other calls of the client are doing (their
\* refreshes may be in flight); and every call dispatches at most twice.
C15_RefreshPerCall ==
    \A c \in Calls :
        /\ Cardinality(DispatchPos(c)) <= 2
        /\ Unauthorized(c) =>
              /\ log[c][FirstResponsePos(c) + 1].ev = "refresh"
              /\ Cardinality(After(EvPos(c, "refresh"), FirstResponsePos(c))) = 1
              /\ Cardinality(After(EvPos(c, "refreshed"), FirstResponsePos(c))) <= 1
        /\ pc[c] = "await401Refresh" =>
              /\ Unauthorized(c)
              /\ log[c][Len(log[c])].ev = "refresh"

\* the refreshes of two calls are in flight at the same time, each called by
\* its own call on its own 401
C15_Witness ==
    \E c, d \in Calls :
        /\ c # d
        /\ pc[c] = "await401Refresh" /\ pc[d] = "await401Refresh"
        /\ Unauthorized(c) /\ Unauthorized(d)
        /\ Cardinality(EvPos(c, "refresh")) = 1
        /\ Cardinality(EvPos(d, "refresh")) = 1

\* the calls of the static callAPI in the log of c, the arguments of such a
\* call and the request built from them
StaticCallPos(c) == EvPos(c, "callAPI")
StaticArgs(c, i) == log[c][i]
StaticRequest(c, i) == log[c][i + 1].req

\* the requests callAPI of the client has dispatched
ClientRequests(c) ==
    IF StaticCallPos(c) # {} THEN {} ELSE {log[c][d].req : d \in DispatchPos(c)}

HasContentType(req, value) == \E k \in 1..Len(req.contentType) : req.contentType[k] = value

\* C16: a request built from options with both body and jsonBody has the
\* form encoding of body as its body, not the JSON text of jsonBody, and the
\* form Content-Type as its only Content-Type; a request has the JSON
\* Content-Type only when options has no body and has a jsonBody, and then
\* its body is the JSON text of jsonBody.
C16_FormBodyFirst ==
    \A c \in Calls :
        \A i \in StaticCallPos(c) :
            LET req == StaticRequest(c, i)
                o == opts[c]
            IN /\ o.body # Undefined =>
                     /\ req.body = QsStringify(o.body)
                     /\ req.contentType = <<"application/x-www-form-urlencoded">>
               /\ HasContentType(req, "application/json") =>
                     /\ o.body = Undefined /\ o.jsonBody # Undefined
                     /\ req.body = JSONStringify(o.jsonBody)
                     /\ req.contentType = <<"application/json">>
               /\ (o.body = Undefined /\ o.jsonBody = Undefined) =>
                     /\ req.body = Undefined
                     /\ req.contentType = NoHeader

\* a request was built from options with a body and a jsonBody of the same
\* fields: its body is the form encoding, which is not the JSON text
C16_Witness ==
    \E c \in Calls :
        \E i \in StaticCallPos(c) :
            /\ opts[c].body = "{game: 'a b'}" /\ opts[c].jsonBody = "{game: 'a b'}"
            /\ StaticRequest(c, i).body = "game=a%20b"
            /\ StaticRequest(c, i).body # JSONStringify(opts[c].jsonBody)
            /\ StaticRequest(c, i).contentType = <<"application/x-www-form-urlencoded">>

\* C17: a built request has an Authorization header exactly when an access
\* token is given (the empty string is none); its scheme is Bearer exactly
\* when the type is Helix and OAuth for every other type, and it carries the
\* token; the request has a Client-ID header exactly when a client id is given
\* (the empty string is none) and the type is not Auth, and it carries that
\* id. The same holds of the requests callAPI of the client dispatches with
\* the provider's client id.
C17_CredentialHeaders ==
    \A c \in Calls :
        /\ \A i \in StaticCallPos(c) :
              LET req == StaticRequest(c, i)
                  a == StaticArgs(c, i)
                  type == IF opts[c].type = Undefined THEN Kraken ELSE opts[c].type
              IN /\ req.authorization # NoHeader <=> Truthy(a.token)
                 /\ req.authorization # NoHeader =>
                       /\ req.authorization[1] = "Bearer" <=> type = Helix
                       /\ req.authorization[1] = "OAuth" <=> type # Helix
                       /\ req.authorization[2] = a.token
                 /\ req.clientIdHeader # NoHeader <=> (Truthy(a.clientId) /\ type # Auth)
                 /\ req.clientIdHeader # NoHeader => req.clientIdHeader = <<a.clientId>>
        /\ \A req \in ClientRequests(c) :
              /\ req.authorization # NoHeader =>
                    /\ req.authorization[1] = "Bearer" <=> req.type = Helix
                    /\ req.authorization[1] = "OAuth" <=> req.type # Helix
              /\ req.clientIdHeader =
                    IF req.type = Auth THEN NoHeader ELSE <<ProviderClientId>>

\* a Helix request was built with a token and a client id
C17_Witness ==
    \E c \in Calls :
        \E i \in StaticCallPos(c) :
            /\ opts[c].type = Helix
            /\ StaticArgs(c, i).token = "tokA"
            /\ StaticArgs(c, i).clientId = ProviderClientId
            /\ StaticRequest(c, i).authorization = <<"Bearer", "tokA">>
            /\ StaticRequest(c, i).clientIdHeader = <<ProviderClientId>>

IsClientCall(c) == pc[c] # "start" /\ StaticCallPos(c) = {}

\* C19 (as amended): with a provider that has no refresh, a call of the
\* client calls getAccessToken exactly once and never calls refresh; it
\* dispatches exactly once when getAccessToken resolves and not at all when it
\* rejects; a token that is expired is dispatched as it is; no response is
\* followed by another dispatch, and a 401 response is decoded at once: the
\* call ends with the HTTPStatusCodeError of status 401 when the body of the
\* response is JSON and with the failure to parse the body when it is not.
C19_NoRefresh ==
    \A c \in Calls :
        (~hasRefresh /\ IsClientCall(c)) =>
            /\ Cardinality(EvPos(c, "getAccessToken")) = 1
            /\ EvPos(c, "refresh") = {}
            /\ Cardinality(DispatchPos(c)) = IF HasAcquired(c) THEN 1 ELSE 0
            /\ Cardinality(EvPos(c, "fetch")) <= 1
            /\ (HasAcquired(c) /\ Acquired(c).token # Undefined) =>
                  log[c][Least(DispatchPos(c))].req.authorization
                      = <<IF opts[c].type = Helix THEN "Bearer" ELSE "OAuth", Acquired(c).token>>
            /\ HasResponse(c) =>
                  /\ FirstResponsePos(c) = Len(log[c])
                  /\ pc[c] = "done"
                  /\ FirstResponse(c).status = 401 =>
                        /\ outcome[c] = ErrorOf(FirstResponse(c))
                        /\ outcome[c].kind = "HTTPStatusCodeError" => outcome[c].status = 401

\* C19 as stated: with a provider that has no refresh, a 401 response to the
\* one dispatch of a call always ends the call with an HTTPStatusCodeError.
C19_Original ==
    \A c \in Calls :
        (~hasRefresh /\ IsClientCall(c) /\ HasResponse(c)
            /\ FirstResponse(c).status = 401) =>
            /\ Cardinality(DispatchPos(c)) = 1
            /\ pc[c] = "done"
            /\ outcome[c].kind = "HTTPStatusCodeError"
            /\ outcome[c].status = 401

\* with a provider that has no refresh, an expired token was dispatched as it
\* is, the response was a 401 and the call ended with its HTTPStatusCodeError
C19_Witness ==
    \E c \in Calls :
        /\ ~hasRefresh /\ IsClientCall(c)
        /\ HasAcquired(c) /\ Acquired(c).expired
        /\ Cardinality(DispatchPos(c)) = 1
        /\ log[c][Least(DispatchPos(c))].req.authorization[2] = Acquired(c).token
        /\ HasResponse(c) /\ FirstResponse(c).status = 401
        /\ outcome[c] = HTTPStatusCodeError(401, "[1]")

\* C20: a rejection of refresh or of getAccessToken is the last thing a call
\* does and is what its caller gets; when it comes in the handling of a 401
\* response, the request is not dispatched again and the 401 is not decoded
\* into an HTTPStatusCodeError; when it comes from the refresh of an expired
\* token, or from the first getAccessToken, nothing has been dispatched.
C20_ProviderFailure ==
    \A c \in Calls :
        \A i \in EvPos(c, "rejected") :
            /\ i = Len(log[c])
            /\ pc[c] = "done"
            /\ outcome[c] = Failure("ProviderError")
            /\ log[c][i - 1].ev \in {"refresh", "getAccessToken"}
            /\ IF HasResponse(c)
               THEN /\ FirstResponse(c).status = 401
                    /\ Cardinality(EvPos(c, "response")) = 1
                    /\ Cardinality(DispatchPos(c)) = 1
                    /\ After(DispatchPos(c) \cup EvPos(c, "fetch"), FirstResponsePos(c)) = {}
               ELSE /\ DispatchPos(c) = {}
                    /\ EvPos(c, "fetch") = {}

\* after a 401 the refresh resolved and the second getAccessToken rejected:
\* the call ended with that rejection, on its one dispatch
C20_Witness ==
    \E c \in Calls :
        /\ Unauthorized(c)
        /\ EvPos(c, "refreshed") # {}
        /\ EvPos(c, "rejected") # {}
        /\ log[c][Len(log[c]) - 1].ev = "getAccessToken"
        /\ outcome[c] = Failure("ProviderError")
        /\ Cardinality(DispatchPos(c)) = 1

\* the refresh of an expired token rejected and the call ended with that
\* rejection, with nothing dispatched
C20_WitnessExpired ==
    \E c \in Calls :
        /\ HasAcquired(c) /\ Acquired(c).expired
        /\ EvPos(c, "rejected") # {}
        /\ log[c][Len(log[c]) - 1].ev = "refresh"
        /\ DispatchPos(c) = {}
        /\ outcome[c] = Failure("ProviderError")

====
